---- MODULE Spec2Model ----
(***************************************************************************)
(* Model of src/main.py (lines 1-129): the stock-price dashboard script.   *)
(*                                                                         *)
(* get_stock_close_data (lines 23-74) is modelled statement by statement:  *)
(* the memoizing decorator, the widening retry loop around                 *)
(* ticker.history, the except handler, and the trim / project / rename /   *)
(* strftime pipeline.  The script body (lines 76-129) is modelled as one   *)
(* interaction (one top-to-bottom run): the table build loop, the          *)
(* multiselect, the empty-selection branch, the chart call and the         *)
(* top-level bare except.                                                  *)
(*                                                                         *)
(* Dates are proleptic Gregorian ordinals as datetime.date.toordinal()     *)
(* gives them (ordinal 1 = 0001-01-01, a Monday).  "today" is placed in    *)
(* year 1 so that the lower end of the date range is within reach of the   *)
(* widening loop.                                                          *)
(***************************************************************************)
EXTENDS Integers, Sequences, FiniteSets, TLC

(***************************************************************************)
(* Bounds of the model.                                                    *)
(***************************************************************************)
\* days is drawn from 1..MaxDays (the slider of line 16 allows 1..50).
MaxDays == 2
\* today is drawn from TodayBase .. TodayBase + NumTodays - 1.
TodayBase == 105
NumTodays == 2
\* a provider may be set to raise on its k-th call of a fetch, k <= MaxRaiseAt.
MaxRaiseAt == 2
\* observer counter cap: executions of the function body counted per key.
MaxExecs == 2

(***************************************************************************)
(* Program constants.                                                      *)
(***************************************************************************)
\* line 24: lookback_increment=30
lookback_increment == 30
\* datetime.date.min.toordinal(): .date() (lines 45, 56) cannot go below it.
MinOrdinal == 1
\* line 80: slider bounds 0.0 .. 3500.0
RangeLo == 0
RangeHi == 3500

\* Python's None (the "Absent" result), a cache miss, and a raised
\* exception in place of a value.
None == [kind |-> "None"]
NoEntry == [kind |-> "NoEntry"]
Raise == [kind |-> "Raise"]
\* A missing cell of the concatenated table.
NaN == 0 - 1

(***************************************************************************)
(* Calendar: datetime.date and the '%d %B %Y' format of line 72.           *)
(***************************************************************************)
\* date.weekday(): Monday = 0 .. Sunday = 6; ordinal 1 is a Monday.
weekday(d) == (d + 6) % 7

MonthNames == <<"January", "February", "March", "April", "May", "June", "July",
                "August", "September", "October", "November", "December">>

MonthLengths == <<31, 28, 31, 30, 31, 30, 31, 31, 30, 31, 30, 31>>

\* Years 1..3 of the proleptic calendar are not leap years; the model's
\* dates stay within them.
RECURSIVE MonthOf(_, _)
MonthOf(doy, m) ==
    IF doy <= MonthLengths[m] THEN <<m, doy>> ELSE MonthOf(doy - MonthLengths[m], m + 1)

\* Index.strftime('%d %B %Y'): the display string of a date, as its three
\* fields (day of month, full month name, year).
strftime(d) ==
    LET y  == ((d - 1) \div 365) + 1
        md == MonthOf(((d - 1) % 365) + 1, 1)
    IN  [dd |-> md[2], B |-> MonthNames[md[1]], Y |-> y]

(***************************************************************************)
(* pandas BusinessDay: Timestamp(d) - BDay(k), as offsets.BusinessDay      *)
(* applies n = -k (weeks first, then the remainder with weekend rolls).    *)
(***************************************************************************)
adjust_ndays(n0, wday, weeks) ==
    LET n1 == IF n0 <= 0 /\ wday > 4 THEN n0 + 1 ELSE n0
        n  == n1 - 5 * weeks
    IN  IF n = 0 /\ wday > 4 THEN 4 - wday
        ELSE IF wday > 4 THEN (7 - wday) + (n - 1)
        ELSE IF wday + n <= 4 THEN n
        ELSE n + 2

\* The ordinal of (Timestamp(d) - BDay(k)); it may fall below MinOrdinal,
\* in which case the source expression raises (see Underflows).
BDaySub(d, k) ==
    LET n     == 0 - k
        weeks == n \div 5
    IN  d + 7 * weeks + adjust_ndays(n, weekday(d), weeks)

\* (pd.Timestamp(d) - BDay(k)).date() raises when the result is not a
\* representable date.
Underflows(d, k) == BDaySub(d, k) < MinOrdinal

(***************************************************************************)
(* Configuration of the script.                                            *)
(***************************************************************************)
\* lines 82-89: the tickers dict, in insertion (iteration) order.
tickers == << [company |-> "apple",     symbol |-> "AAPL"],
              [company |-> "meta",      symbol |-> "META"],
              [company |-> "google",    symbol |-> "GOOGL"],
              [company |-> "microsoft", symbol |-> "MSFT"],
              [company |-> "netflix",   symbol |-> "NFLX"],
              [company |-> "amazon",    symbol |-> "AMZN"] >>

Symbols == {tickers[k].symbol : k \in 1..Len(tickers)}

\* line 102: the default selection of the multiselect.
default_companies == <<"google", "amazon", "meta", "apple">>

\* line 16: st.sidebar.slider('...', 1, 50, 20), cut to the model's bound.
DaysRange == 1..MaxDays

\* line 80: values of the (ymin, ymax) range slider tried by the model.
Ranges == {<<RangeLo, RangeHi>>, <<100, 200>>}

Range(f) == {f[x] : x \in DOMAIN f}

(***************************************************************************)
(* The market-data provider (yfinance Ticker.history), the environment of  *)
(* line 50.  A provider profile fixes which trading days it holds for a    *)
(* symbol and on which call of a fetch, if any, it raises.                 *)
(***************************************************************************)
\* "old" history ends this many calendar days before today.
OldGap == 70

HeldKinds == {"full", "recent1", "old", "gap", "none"}

IsTradingDay(d) == weekday(d) <= 4

\* The last trading day strictly before d.
RECURSIVE LastTradingDayBefore(_)
LastTradingDayBefore(d) ==
    IF IsTradingDay(d - 1) THEN d - 1 ELSE LastTradingDayBefore(d - 1)

\* The dates for which the provider holds a row of the symbol.
HeldDates(kind, td) ==
    CASE kind = "full"    -> {d \in MinOrdinal..td : IsTradingDay(d)}
      [] kind = "recent1" -> {LastTradingDayBefore(td)}
      [] kind = "old"     -> {d \in MinOrdinal..(td - OldGap) : IsTradingDay(d)}
      [] kind = "gap"     -> {LastTradingDayBefore(td)}
                               \cup {d \in MinOrdinal..(td - OldGap) : IsTradingDay(d)}
      [] OTHER            -> {}

SymbolIndex(sym) == CHOOSE k \in 1..Len(tickers) : tickers[k].symbol = sym

\* Prices the provider reports; any deterministic values serve, as long as
\* Open and Close differ and prices vary with the date and the symbol.
ClosePrice(sym, d) == (100 * SymbolIndex(sym)) + ((d * 7) % 90)
OpenPrice(sym, d)  == ClosePrice(sym, d) + 1 + (d % 3)

ProviderRow(sym, d) == [Date |-> d, Open |-> OpenPrice(sym, d), Close |-> ClosePrice(sym, d)]

RECURSIVE RowsBetween(_, _, _, _)
RowsBetween(sym, held, d, end) ==
    IF d >= end THEN <<>>
    ELSE (IF d \in held THEN <<ProviderRow(sym, d)>> ELSE <<>>)
           \o RowsBetween(sym, held, d + 1, end)

\* line 50: ticker.history(start=start_date, end=end_date) on its ncall-th
\* call of the fetch: it raises, or returns (as .rows) the held rows with
\* start <= Date < end in ascending date order (possibly none).
history(profile, td, sym, ncall, start, end) ==
    IF profile.raiseAt = ncall THEN Raise
    ELSE [rows |-> RowsBetween(sym, HeldDates(profile.held, td), start, end)]

(***************************************************************************)
(* get_stock_close_data: the pure steps of lines 45-74.                    *)
(***************************************************************************)
\* line 45: the initial start date.
initial_start(end, ndays) == BDaySub(end, ndays + lookback_increment)

\* Variant of widen: calendar days (a timedelta) in place of business days.
widen_calendar(start) == start - lookback_increment

\* line 56: the widened start date.
widen(start) == BDaySub(start, lookback_increment)

\* Variant of on_result: an empty result is given up on instead of widening.
on_result_giveup(result, start) ==
    IF result # <<>> THEN [pc |-> "trim", start_date |-> start, underflow |-> FALSE]
    ELSE [pc |-> "except", start_date |-> start, underflow |-> FALSE]

\* lines 52-56: after a result came back without raising.  A non-empty
\* result leaves the loop; an empty one widens the window and loops, unless
\* the date arithmetic of line 56 raises, which the handler of line 58
\* catches.
on_result(result, start) ==
    IF result # <<>> THEN [pc |-> "trim", start_date |-> start, underflow |-> FALSE]
    ELSE IF Underflows(start, lookback_increment)
         THEN [pc |-> "except", start_date |-> start, underflow |-> TRUE]
         ELSE [pc |-> "call", start_date |-> widen(start), underflow |-> FALSE]

\* Variant of on_exception: the handler widens and retries.
on_exception_retry(start) ==
    [pc |-> "call", ret |-> None, start_date |-> BDaySub(start, lookback_increment)]

\* lines 58-60: the except handler: log and return None.
on_exception(start) == [pc |-> "return", ret |-> None, start_date |-> start]

\* Variants of tail: DataFrame.head(n), and a tail one row too long.
head(rows, n) == IF Len(rows) <= n THEN rows ELSE SubSeq(rows, 1, n)

tail_one_more(rows, n) ==
    IF Len(rows) <= n + 1 THEN rows ELSE SubSeq(rows, Len(rows) - n, Len(rows))

\* line 63: DataFrame.tail(n).
tail(rows, n) ==
    IF n = 0 THEN <<>>
    ELSE IF Len(rows) <= n THEN rows
    ELSE SubSeq(rows, Len(rows) - n + 1, Len(rows))

\* line 66: data[['Close']].
project_close(rows) == [k \in 1..Len(rows) |-> [Date |-> rows[k].Date, Close |-> rows[k].Close]]

\* line 69: data.columns = [new_column_name].
rename_column(rows, name) ==
    [column |-> name, points |-> [k \in 1..Len(rows) |-> [Date |-> rows[k].Date, value |-> rows[k].Close]]]

\* line 72: data.index = data.index.strftime('%d %B %Y').
format_index(series) ==
    [series EXCEPT !.points =
        [k \in 1..Len(series.points) |-> [Date  |-> strftime(series.points[k].Date),
                                          value |-> series.points[k].value]]]

\* lines 63-74: the series returned for a non-empty result.
trim(rows, ndays, name) == format_index(rename_column(project_close(tail(rows, ndays)), name))

(***************************************************************************)
(* st.cache_data (line 23): results memoized per argument tuple.           *)
(***************************************************************************)
CacheKey(symbol, ndays, name) == <<symbol, ndays, name>>

CacheKeys == {CacheKey(tickers[k].symbol, d, tickers[k].company) :
                 k \in 1..Len(tickers), d \in DaysRange}

\* Variant of cache_write: None results are not memoized.
cache_write_skip_none(c, key, value) == IF value = None THEN c ELSE [c EXCEPT ![key] = value]

\* The decorator stores whatever the function returned, None included.
cache_write(c, key, value) == [c EXCEPT ![key] = value]

(***************************************************************************)
(* The script body, lines 91-125.                                          *)
(***************************************************************************)
\* Variant of table_step: a placeholder row for a symbol without data.
table_step_placeholder(table, company, h) ==
    IF h # None THEN Append(table, [Name |-> h.column, points |-> h.points])
    ELSE Append(table, [Name |-> company, points |-> <<>>])

\* lines 95-98: hist.T has one row, labelled by the column name; it is
\* concatenated to df only when hist is not None.
table_step(table, company, h) ==
    IF h # None THEN Append(table, [Name |-> h.column, points |-> h.points]) ELSE table

\* list(df.index)
index_of(table) == [k \in 1..Len(table) |-> table[k].Name]

\* lines 100-103: st.multiselect(label, options, default) raises when a
\* default value is not among the options; otherwise it returns the user's
\* current selection.
multiselect(options, default, selection) ==
    IF \E k \in 1..Len(default) : default[k] \notin Range(options) THEN Raise
    ELSE [value |-> selection]

\* The date columns of the concatenated table, in order of first
\* appearance (pd.concat aligns columns by an outer join).
RECURSIVE ColumnsOf(_)
ColumnsOf(table) ==
    IF table = <<>> THEN <<>>
    ELSE LET prev == ColumnsOf(SubSeq(table, 1, Len(table) - 1))
             row  == table[Len(table)]
             new  == SelectSeq([k \in 1..Len(row.points) |-> row.points[k].Date],
                               LAMBDA c : c \notin Range(prev))
         IN  prev \o new

\* line 108: df.loc[companies]: the rows named, in the order named.
loc(table, names) ==
    [k \in 1..Len(names) |-> CHOOSE r \in Range(table) : r.Name = names[k]]

CellOf(row, col) ==
    IF \E k \in 1..Len(row.points) : row.points[k].Date = col
    THEN (CHOOSE p \in Range(row.points) : p.Date = col).value
    ELSE NaN

\* lines 111-114: data.T.reset_index() melted on 'Date': one row per
\* (company, date column), company-major.
RECURSIVE melt(_, _)
melt(rows, cols) ==
    IF rows = <<>> THEN <<>>
    ELSE [k \in 1..Len(cols) |-> [Date |-> cols[k], Name |-> rows[1].Name,
                                  value |-> CellOf(rows[1], cols[k])]]
           \o melt(Tail(rows), cols)

\* Variant of make_chart: the range filters the data instead of only
\* setting the axis domain.
make_chart_clipped(table, names, lo, hi) ==
    [data |-> SelectSeq(melt(loc(table, names), ColumnsOf(table)),
                        LAMBDA r : r.value >= lo /\ r.value <= hi),
     domain |-> <<lo, hi>>]

\* lines 116-125: the chart handed to st.altair_chart.
make_chart(table, names, lo, hi) ==
    [data |-> melt(loc(table, names), ColumnsOf(table)), domain |-> <<lo, hi>>]

\* Variant of render: the chart is drawn whatever the selection.
render_always_chart(table, names, lo, hi) ==
    [outcome |-> IF names = <<>> THEN "validation_error" ELSE "chart",
     chart |-> make_chart_clipped(table, names, RangeLo, RangeHi)]

\* lines 105-125: the branch on the selection.
render(table, names, lo, hi) ==
    IF names = <<>> THEN [outcome |-> "validation_error", chart |-> None]
    ELSE [outcome |-> "chart", chart |-> make_chart(table, names, lo, hi)]

(***************************************************************************)
(* State.                                                                  *)
(***************************************************************************)
VARIABLES
    today,       \* datetime.today().date() (line 42), fixed for a behaviour
    provider,    \* symbol -> profile of the external provider
    cache,       \* st.cache_data store of get_stock_close_data
    pc,          \* position of the script run
    days,        \* line 16
    ymin, ymax,  \* line 80
    i,           \* position of "for company in tickers" (line 92)
    df,          \* line 91
    hist,        \* line 94
    selection,   \* what the user has selected in the multiselect widget
    companies,   \* line 100
    outcome,     \* what the run showed: none, chart, validation_error, generic_error
    chart,       \* the argument of st.altair_chart (line 125), or None
    start_date, end_date, data, ret,   \* locals of get_stock_close_data
    ncall,       \* history calls made by the running execution
    underflow,   \* line 56 raised in the running execution
    fcalls,      \* log: the history calls of the latest execution
    calls,       \* log: the history calls of the interaction
    fetched,     \* log: per loop iteration, the company and whether hist was None
    execs,       \* log: per cache key, executions that called the provider
    startCache,  \* log: the cache as the interaction found it
    ref          \* observer: a finished interaction kept for comparison

vars == <<today, provider, cache, pc, days, ymin, ymax, i, df, hist, selection,
          companies, outcome, chart, start_date, end_date, data, ret, ncall,
          underflow, fcalls, calls, fetched, execs, startCache, ref>>

world == <<today, provider>>
frame == <<start_date, end_date, data, ret, ncall, underflow, fcalls>>
widgets == <<days, ymin, ymax>>

NoRef == [kind |-> "NoRef"]

FullProfile == [held |-> "full", raiseAt |-> 0]

\* Profiles tried: every kind of history without a raise, a raise on the
\* first call, and a raise after one or more empty results.
Profiles ==
    {[held |-> k, raiseAt |-> 0] : k \in HeldKinds}
      \cup {[held |-> "full", raiseAt |-> 1]}
      \cup {[held |-> "none", raiseAt |-> n] : n \in 2..MaxRaiseAt}

\* Symbols whose provider may misbehave: one of the default selection and
\* one outside it.
Providers ==
    {f \in [Symbols -> Profiles] :
        /\ \A s \in Symbols \ {"GOOGL", "MSFT"} : f[s] = FullProfile
        /\ f["MSFT"] \in {FullProfile, [held |-> "full", raiseAt |-> 1],
                          [held |-> "none", raiseAt |-> 0]}}

Todays == TodayBase..(TodayBase + NumTodays - 1)

EmptyCache == [k \in CacheKeys |-> NoEntry]

\* What a process holds before its first interaction.
Fresh ==
    /\ cache = EmptyCache
    /\ execs = [k \in CacheKeys |-> 0]
    /\ pc = "idle"
    /\ days = 1 /\ ymin = RangeLo /\ ymax = RangeHi
    /\ i = 1 /\ df = <<>> /\ hist = None /\ selection = <<>> /\ companies = <<>>
    /\ outcome = "none" /\ chart = None
    /\ start_date = MinOrdinal /\ end_date = MinOrdinal /\ data = <<>> /\ ret = None
    /\ ncall = 0 /\ underflow = FALSE
    /\ fcalls = <<>> /\ calls = <<>> /\ fetched = <<>>
    /\ startCache = EmptyCache

Init ==
    /\ today \in Todays
    /\ provider \in Providers
    /\ Fresh
    /\ ref = NoRef

CurrentKey == CacheKey(tickers[i].symbol, days, tickers[i].company)

\* The selections a user can make among the options offered: the default,
\* nothing, the first option alone, or every option.
Selections(options) ==
    {default_companies, <<>>, options} \cup {<<options[k]>> : k \in {1} \cap DOMAIN options}

(***************************************************************************)
(* Actions of one interaction (one run of the script).                     *)
(***************************************************************************)
\* lines 16, 80, 91: the widgets are read and the run starts.
StartInteraction ==
    /\ pc \in {"idle", "done"}
    /\ \E d \in DaysRange, r \in Ranges :
          /\ days' = d
          /\ ymin' = r[1]
          /\ ymax' = r[2]
    /\ i' = 1 /\ df' = <<>> /\ hist' = None /\ selection' = <<>> /\ companies' = <<>>
    /\ outcome' = "none" /\ chart' = None
    /\ start_date' = MinOrdinal /\ end_date' = MinOrdinal /\ data' = <<>> /\ ret' = None
    /\ ncall' = 0 /\ underflow' = FALSE
    /\ fcalls' = <<>> /\ calls' = <<>> /\ fetched' = <<>>
    /\ startCache' = cache
    /\ pc' = "loop"
    /\ UNCHANGED <<world, cache, execs, ref>>

\* line 94 with a memoized result: the decorator returns it, the function
\* body does not run.
CallCached ==
    /\ pc = "loop" /\ i <= Len(tickers)
    /\ cache[CurrentKey] # NoEntry
    /\ hist' = cache[CurrentKey]
    /\ fcalls' = <<>>
    /\ pc' = "append"
    /\ UNCHANGED <<world, cache, widgets, i, df, selection, companies, outcome, chart,
                   start_date, end_date, data, ret, ncall, underflow, calls, fetched,
                   execs, startCache, ref>>

\* line 94 without a memoized result: the function body starts (lines
\* 39-45).  Line 45 is outside the try block: if it raises, the exception
\* reaches the bare except of line 126.
CallBody ==
    /\ pc = "loop" /\ i <= Len(tickers)
    /\ cache[CurrentKey] = NoEntry
    /\ execs[CurrentKey] < MaxExecs
    /\ end_date' = today
    /\ IF Underflows(today, days + lookback_increment)
       THEN /\ pc' = "except_top"
            /\ UNCHANGED start_date
       ELSE /\ pc' = "call"
            /\ start_date' = initial_start(today, days)
    /\ data' = <<>> /\ ret' = None /\ ncall' = 0 /\ underflow' = FALSE /\ fcalls' = <<>>
    /\ UNCHANGED <<world, cache, widgets, i, df, hist, selection, companies, outcome,
                   chart, calls, fetched, execs, startCache, ref>>

ResultKind(r) == IF r = Raise THEN "raise" ELSE IF r.rows = <<>> THEN "empty" ELSE "rows"

\* line 50: one call of ticker.history.
Call ==
    /\ pc = "call"
    /\ LET sym == tickers[i].symbol
           r   == history(provider[sym], today, sym, ncall + 1, start_date, end_date)
           rec == [symbol |-> sym, start |-> start_date, end |-> end_date,
                   result |-> ResultKind(r)]
       IN  /\ ncall' = ncall + 1
           /\ fcalls' = Append(fcalls, rec)
           /\ calls' = Append(calls, rec)
           /\ execs' = IF ncall = 0 THEN [execs EXCEPT ![CurrentKey] = @ + 1] ELSE execs
           /\ IF r = Raise
              THEN pc' = "except" /\ UNCHANGED data
              ELSE pc' = "check" /\ data' = r.rows
    /\ UNCHANGED <<world, cache, widgets, i, df, hist, selection, companies, outcome,
                   chart, start_date, end_date, ret, underflow, fetched, startCache, ref>>

\* lines 52-56: leave the loop, or widen and retry.
Check ==
    /\ pc = "check"
    /\ LET n == on_result(data, start_date)
       IN  /\ pc' = n.pc
           /\ start_date' = n.start_date
           /\ underflow' = n.underflow
    /\ UNCHANGED <<world, cache, widgets, i, df, hist, selection, companies, outcome,
                   chart, end_date, data, ret, ncall, fcalls, calls, fetched, execs,
                   startCache, ref>>

\* lines 58-60: the except handler.
Except ==
    /\ pc = "except"
    /\ LET n == on_exception(start_date)
       IN  /\ pc' = n.pc
           /\ ret' = n.ret
           /\ start_date' = n.start_date
    /\ UNCHANGED <<world, cache, widgets, i, df, hist, selection, companies, outcome,
                   chart, end_date, data, ncall, underflow, fcalls, calls, fetched,
                   execs, startCache, ref>>

\* lines 63-74.
Trim ==
    /\ pc = "trim"
    /\ ret' = trim(data, days, tickers[i].company)
    /\ pc' = "return"
    /\ UNCHANGED <<world, cache, widgets, i, df, hist, selection, companies, outcome,
                   chart, start_date, end_date, data, ncall, underflow, fcalls, calls,
                   fetched, execs, startCache, ref>>

\* The function returns: the decorator memoizes the value and line 94
\* assigns it.
Return ==
    /\ pc = "return"
    /\ cache' = cache_write(cache, CurrentKey, ret)
    /\ hist' = ret
    /\ pc' = "append"
    /\ UNCHANGED <<world, widgets, i, df, selection, companies, outcome, chart,
                   start_date, end_date, data, ret, ncall, underflow, fcalls, calls,
                   fetched, execs, startCache, ref>>

\* lines 95-98, and the next iteration of line 92.
AppendRow ==
    /\ pc = "append"
    /\ df' = table_step(df, tickers[i].company, hist)
    /\ fetched' = Append(fetched, [company |-> tickers[i].company, absent |-> hist = None])
    /\ i' = i + 1
    /\ pc' = "loop"
    /\ UNCHANGED <<world, cache, widgets, hist, selection, companies, outcome, chart,
                   frame, calls, execs, startCache, ref>>

\* line 92: the loop is exhausted.
LoopEnd ==
    /\ pc = "loop" /\ i > Len(tickers)
    /\ pc' = "select"
    /\ UNCHANGED <<world, cache, widgets, i, df, hist, selection, companies, outcome,
                   chart, frame, calls, fetched, execs, startCache, ref>>

\* lines 100-103.
Select ==
    /\ pc = "select"
    /\ \E sel \in Selections(index_of(df)) :
          LET m == multiselect(index_of(df), default_companies, sel)
          IN  /\ selection' = sel
              /\ IF m = Raise
                 THEN pc' = "except_top" /\ UNCHANGED companies
                 ELSE pc' = "branch" /\ companies' = m.value
    /\ UNCHANGED <<world, cache, widgets, i, df, hist, outcome, chart, frame, calls,
                   fetched, execs, startCache, ref>>

\* lines 105-125.
Branch ==
    /\ pc = "branch"
    /\ LET r == render(df, companies, ymin, ymax)
       IN  /\ outcome' = r.outcome
           /\ chart' = r.chart
    /\ pc' = "done"
    /\ UNCHANGED <<world, cache, widgets, i, df, hist, selection, companies, frame,
                   calls, fetched, execs, startCache, ref>>

\* lines 126-129: the bare except shows the generic message.
ExceptTop ==
    /\ pc = "except_top"
    /\ outcome' = "generic_error"
    /\ pc' = "done"
    /\ UNCHANGED <<world, cache, widgets, i, df, hist, selection, companies, chart,
                   frame, calls, fetched, execs, startCache, ref>>

\* The process is restarted: the memoization cache is lost.
Restart ==
    /\ pc = "done"
    /\ cache' = EmptyCache
    /\ execs' = [k \in CacheKeys |-> 0]
    /\ pc' = "idle"
    /\ days' = 1 /\ ymin' = RangeLo /\ ymax' = RangeHi
    /\ i' = 1 /\ df' = <<>> /\ hist' = None /\ selection' = <<>> /\ companies' = <<>>
    /\ outcome' = "none" /\ chart' = None
    /\ start_date' = MinOrdinal /\ end_date' = MinOrdinal /\ data' = <<>> /\ ret' = None
    /\ ncall' = 0 /\ underflow' = FALSE
    /\ fcalls' = <<>> /\ calls' = <<>> /\ fetched' = <<>>
    /\ startCache' = EmptyCache
    /\ UNCHANGED <<world, ref>>

Next ==
    \/ StartInteraction
    \/ CallCached
    \/ CallBody
    \/ Call
    \/ Check
    \/ Except
    \/ Trim
    \/ Return
    \/ AppendRow
    \/ LoopEnd
    \/ Select
    \/ Branch
    \/ ExceptTop
    \/ Restart

Spec == Init /\ [][Next]_vars

(***************************************************************************)
(* A second specification, for comparing interactions: one finished        *)
(* interaction of the behaviour is kept in ref, and later ones are         *)
(* compared with it.                                                       *)
(***************************************************************************)
ChartData(c) == IF c = None THEN <<>> ELSE c.data

Remember ==
    /\ pc = "done"
    /\ ref = NoRef
    /\ ref' = [days |-> days, range |-> <<ymin, ymax>>, selection |-> selection,
               startCache |-> startCache, calls |-> calls, df |-> df,
               outcome |-> outcome, data |-> ChartData(chart)]
    /\ UNCHANGED <<world, cache, pc, widgets, i, df, hist, selection, companies,
                   outcome, chart, frame, calls, fetched, execs, startCache>>

InitRange ==
    /\ today = TodayBase
    /\ provider \in {f \in Providers :
                        /\ f["MSFT"] = FullProfile
                        /\ f["GOOGL"] \in {FullProfile, [held |-> "old", raiseAt |-> 0],
                                           [held |-> "full", raiseAt |-> 1]}}
    /\ Fresh
    /\ ref = NoRef

NextRange == Next \/ Remember

SpecRange == InitRange /\ [][NextRange]_vars

(***************************************************************************)
(* Vocabulary of the properties: characterisations that do not go through  *)
(* the operators modelling the code.                                       *)
(***************************************************************************)
\* Business days d with a <= d < b.
WeekdaysBetween(a, b) == Cardinality({d \in a..(b - 1) : weekday(d) <= 4})

Min(a, b) == IF a <= b THEN a ELSE b

RECURSIVE DaysBeforeMonth(_)
DaysBeforeMonth(m) == IF m = 1 THEN 0 ELSE DaysBeforeMonth(m - 1) + MonthLengths[m - 1]

\* The date a display string denotes (strptime of '%d %B %Y').
ParseDate(str) ==
    LET m == CHOOSE k \in 1..12 : MonthNames[k] = str.B
    IN  (str.Y - 1) * 365 + DaysBeforeMonth(m) + str.dd

CurrentSymbol == tickers[i].symbol

Held(sym) == HeldDates(provider[sym].held, today)

NoRaise == \A k \in 1..Len(fcalls) : fcalls[k].result # "raise"

LastCall == fcalls[Len(fcalls)]

\* The function body has just returned ret for tickers[i].
Returned == pc = "return"

AscendingNoDuplicates(points) ==
    /\ \A k \in 1..(Len(points) - 1) : ParseDate(points[k].Date) < ParseDate(points[k + 1].Date)
    /\ Cardinality({points[k].Date : k \in 1..Len(points)}) = Len(points)

\* Trading days the provider holds before today / inside the first window.
HeldBeforeToday == {d \in Held(CurrentSymbol) : d < today}

HeldInInitialWindow ==
    {d \in HeldBeforeToday : WeekdaysBetween(d, today) <= days + lookback_increment}

ExactlyDays == ret # None /\ Len(ret.points) = days /\ AscendingNoDuplicates(ret.points)

(***************************************************************************)
(* C1 (as stated): whenever the provider holds at least `days` trading     *)
(* days before today and does not raise, the fetch returns exactly `days`  *)
(* points, in ascending date order, without duplicate dates.               *)
(***************************************************************************)
C1_AnyHistorySuffices ==
    (Returned /\ NoRaise /\ Cardinality(HeldBeforeToday) >= days) => ExactlyDays

(***************************************************************************)
(* C1 (amended): whenever the provider holds at least `days` trading days  *)
(* inside the initial window [today - BDay(days + lookback_increment),     *)
(* today) and does not raise, the fetch returns exactly `days` points, in  *)
(* ascending date order, without duplicate dates.                          *)
(***************************************************************************)
C1_ExactlyDays ==
    (Returned /\ NoRaise /\ Cardinality(HeldInInitialWindow) >= days) => ExactlyDays

C1_Witness ==
    /\ Returned /\ NoRaise /\ Cardinality(HeldInInitialWindow) > days
    /\ days > 1 /\ ExactlyDays

(***************************************************************************)
(* C2: a history call that raises is the last call of its fetch, whatever  *)
(* number of empty results came before it, and the fetch then returns      *)
(* None: after the handler ran, the function is neither calling, checking  *)
(* nor trimming.                                                           *)
(***************************************************************************)
C2_NoRetryAfterRaise ==
    /\ \A k \in 1..Len(fcalls) : fcalls[k].result = "raise" => k = Len(fcalls)
    /\ (fcalls # <<>> /\ LastCall.result = "raise")
          => /\ pc \notin {"call", "check", "trim"}
             /\ pc # "except" => ret = None
             /\ pc = "append" => hist = None

C2_Witness ==
    /\ Returned /\ Len(fcalls) >= 2 /\ LastCall.result = "raise"
    /\ fcalls[1].result = "empty" /\ ret = None

(***************************************************************************)
(* C3: the first request of a fetch ends today and starts days +           *)
(* lookback_increment business days before today; every later request     *)
(* follows an empty result, has the same end and starts exactly            *)
(* lookback_increment business days before the previous start; the series  *)
(* returned holds the most recent rows of the window of the last request.  *)
(***************************************************************************)
C3_WindowSequence ==
    /\ \A k \in 1..Len(fcalls) :
          /\ fcalls[k].end = today
          /\ IsTradingDay(fcalls[k].start)
          /\ k = 1 => WeekdaysBetween(fcalls[k].start, today) = days + lookback_increment
          /\ k > 1 => /\ fcalls[k - 1].result = "empty"
                      /\ fcalls[k].start < fcalls[k - 1].start
                      /\ WeekdaysBetween(fcalls[k].start, fcalls[k - 1].start)
                            = lookback_increment
    /\ (Returned /\ ret # None) =>
          LET W == {d \in Held(CurrentSymbol) : LastCall.start <= d /\ d < today}
              m == Len(ret.points)
          IN  /\ LastCall.result = "rows"
              /\ m = Min(days, Cardinality(W))
              /\ \A k \in 1..m : \E d \in W :
                    /\ ret.points[k].Date = strftime(d)
                    /\ ret.points[k].value = ClosePrice(CurrentSymbol, d)
                    /\ Cardinality({e \in W : e > d}) = m - k

C3_Witness ==
    /\ Returned /\ ret # None /\ Len(fcalls) = 2
    /\ fcalls[1].result = "empty" /\ fcalls[2].result = "rows"
    /\ Len(ret.points) = days

(***************************************************************************)
(* C4: the fetcher is invoked once per configured symbol, in order,        *)
(* whatever the earlier results; the table holds exactly one row for each  *)
(* symbol whose fetch returned a series, in that order, and no row, not    *)
(* even an empty one, for a symbol whose fetch returned None.              *)
(***************************************************************************)
C4_TableRows ==
    /\ Len(fetched) <= Len(tickers)
    /\ \A k \in 1..Len(fetched) : fetched[k].company = tickers[k].company
    /\ pc \in {"select", "branch"} => Len(fetched) = Len(tickers)
    /\ index_of(df) =
          LET got == SelectSeq(fetched, LAMBDA f : ~f.absent)
          IN  [k \in 1..Len(got) |-> got[k].company]
    /\ \A k \in 1..Len(df) : df[k].points # <<>>

C4_Witness ==
    /\ pc = "select"
    /\ \E k \in 1..Len(fetched) : fetched[k].absent
    /\ Len(df) = Len(tickers) - 1

(***************************************************************************)
(* C5: when the branch of line 105 finds the selection empty, the run      *)
(* shows the validation error and hands no chart to st.altair_chart; a     *)
(* chart is handed over only in a run whose selection is not empty.        *)
(***************************************************************************)
C5_EmptySelection ==
    /\ (pc = "done" /\ outcome \in {"chart", "validation_error"} /\ companies = <<>>)
          => (outcome = "validation_error" /\ chart = None)
    /\ chart # None => (companies # <<>> /\ outcome = "chart")

C5_Witness == pc = "done" /\ companies = <<>> /\ outcome = "validation_error" /\ df # <<>>

(***************************************************************************)
(* C6 (as stated): a run in which the fetch of some configured symbol      *)
(* returned None while others returned series does not end in the generic  *)
(* error message: it reaches the selection branch.                         *)
(***************************************************************************)
C6_AbsentNotFatal ==
    (/\ pc = "done"
     /\ Len(fetched) = Len(tickers)
     /\ \E k \in 1..Len(fetched) : fetched[k].absent
     /\ \E k \in 1..Len(fetched) : ~fetched[k].absent)
        => outcome \in {"chart", "validation_error"}

(***************************************************************************)
(* C7: a returned series has at most `days` points; they are the last      *)
(* min(days, n) rows of the first non-empty result of n rows, in the same  *)
(* order, each with its date formatted and its closing price; a result of  *)
(* fewer than `days` rows is returned whole.                               *)
(***************************************************************************)
C7_MostRecent ==
    /\ (Returned /\ ret # None) =>
          LET n == Len(data)
              m == Len(ret.points)
          IN  /\ n > 0
              /\ LastCall.result = "rows"
              /\ \A k \in 1..(Len(fcalls) - 1) : fcalls[k].result = "empty"
              /\ m <= days
              /\ m = Min(days, n)
              /\ ret.column = tickers[i].company
              /\ \A k \in 1..m :
                    /\ ret.points[k].Date = strftime(data[n - m + k].Date)
                    /\ ret.points[k].value = data[n - m + k].Close
    /\ (Returned /\ NoRaise /\ ~underflow) => ret # None

C7_Witness == Returned /\ ret # None /\ Len(data) > days /\ days > 1

C7_ShortWitness == Returned /\ ret # None /\ Len(data) < days

(***************************************************************************)
(* C8: within one process the provider is queried for a cache key during   *)
(* at most one execution of the function body; a stored entry, a series or *)
(* None, is never overwritten before the process restarts; a call that     *)
(* finds an entry returns it and queries nothing.                          *)
(***************************************************************************)
C8_QueriedOnce ==
    [][ /\ \A k \in CacheKeys : execs'[k] <= 1
        /\ pc' # "idle" => \A k \in CacheKeys : cache[k] # NoEntry => cache'[k] = cache[k]
        /\ (pc = "loop" /\ i <= Len(tickers) /\ cache[CurrentKey] # NoEntry)
              => (hist' = cache[CurrentKey] /\ calls' = calls /\ execs' = execs
                  /\ pc' = "append") ]_vars

C8_Witness ==
    /\ pc = "append" /\ fcalls = <<>>
    /\ hist = None /\ cache[CurrentKey] = None /\ execs[CurrentKey] = 1
    /\ startCache[CurrentKey] = None

(***************************************************************************)
(* C9 (as stated): the fetch terminates only when a provider call returns  *)
(* a non-empty result or raises.                                           *)
(***************************************************************************)
C9_OnlyRowsOrRaiseEnd == Returned => LastCall.result \in {"rows", "raise"}

(***************************************************************************)
(* C9 (amended): the retry has no counter: after an empty result the fetch *)
(* always goes on to a wider request, as long as widening keeps start_date *)
(* a representable date.  The fetch ends with a series after a non-empty   *)
(* result, with None after a raise, and with None after an empty result    *)
(* only when fewer than lookback_increment business days lie between the   *)
(* earliest date and start_date.                                           *)
(***************************************************************************)
C9_Termination ==
    /\ Returned =>
          \/ LastCall.result = "rows" /\ ret # None
          \/ LastCall.result = "raise" /\ ret = None
          \/ /\ LastCall.result = "empty" /\ ret = None /\ underflow
             /\ WeekdaysBetween(MinOrdinal, start_date) < lookback_increment
             /\ \A k \in 1..Len(fcalls) : fcalls[k].result = "empty"
    /\ (fcalls # <<>> /\ LastCall.result = "empty" /\ pc # "check"
          /\ WeekdaysBetween(MinOrdinal, LastCall.start) >= lookback_increment)
          => (pc = "call" /\ ~underflow /\ start_date < LastCall.start)

C9_Witness ==
    /\ Returned /\ ret = None /\ underflow /\ Len(fcalls) >= 2
    /\ \A k \in 1..Len(fcalls) : fcalls[k].result = "empty"

(***************************************************************************)
(* C10: a finished interaction that differs from the remembered one only   *)
(* in the display range (same days, same selection, same cache found at    *)
(* its start) made the same provider calls, built the same table, ended    *)
(* the same way and handed the same long-form data to the chart; the range *)
(* shows only in the chart's axis domain.                                  *)
(***************************************************************************)
SameInputsButRange ==
    /\ pc = "done" /\ ref # NoRef
    /\ days = ref.days /\ selection = ref.selection /\ startCache = ref.startCache

C10_RangeFrame ==
    /\ SameInputsButRange =>
          /\ calls = ref.calls
          /\ df = ref.df
          /\ outcome = ref.outcome
          /\ ChartData(chart) = ref.data
    /\ chart # None => chart.domain = <<ymin, ymax>>

C10_Witness ==
    /\ SameInputsButRange
    /\ <<ymin, ymax>> # ref.range
    /\ outcome = "chart" /\ calls # <<>>
    /\ \E k \in 1..Len(chart.data) : chart.data[k].value > ymax

====
